---- MODULE Spec2Model ----
(***************************************************************************)
(* Collaborative editing relay: the room store (crud/room_crud.py), the    *)
(* connection registry (core/ws_manager.py, ConnectionManager) and the     *)
(* per-connection websocket handler (api/v1/endpoints/coding.py,           *)
(* ws_coding).  The handler runs as one asyncio task per connection: the   *)
(* code between two awaits is one atomic step, and every await is a point  *)
(* where the other tasks may run.                                          *)
(***************************************************************************)
EXTENDS Integers, Sequences, FiniteSets, TLC

\* ------------------------------------------------------------------ bounds
SessionOrder == <<"w1", "w2", "w3">>   \* websocket connections, in opening order
Sessions == {SessionOrder[i] : i \in 1..Len(SessionOrder)}
CoreSessions == {"w1", "w2", "w3"}     \* the connections a run may open
RoomOrder == <<"r1", "r2">>            \* room identifiers, in the order create_room draws them
RoomIds == {RoomOrder[i] : i \in 1..Len(RoomOrder)}
MsgOrder == <<"a", "b">>               \* non-empty text frames, in the order they first occur
Msgs == {MsgOrder[i] : i \in 1..Len(MsgOrder)}
MaxMsgs == 1                           \* frames received by the server, in total
MaxFaults == 2                         \* channels closed by the client plus frames that raise
MaxList == 3                           \* length of a registry entry in the manager harness

\* ------------------------------------------------------------- constants
WS_1008_POLICY_VIOLATION == 1008
NoRoom == "<absent>"                   \* Python's None: no row for the room id, no value
NoConn == "<none>"                     \* no connection / no value
EmptyText == ""                        \* Room.code_content default

VARIABLES
    store,               \* rooms table: room id -> code_content, or NoRoom
    active_connections,  \* ConnectionManager.active_connections: room id -> list of websockets
    pc,                  \* where each ws_coding task is suspended
    room,                \* ws_coding's room_id path parameter
    roomObj,             \* ws_coding's local `room`: code_content as loaded by the lookup
    data,                \* ws_coding's local `data`: the frame being processed
    conn,                \* broadcast's loop variable `connection` (target of the pending send)
    it,                  \* broadcast's list iterator: index of the next item it will read
    chan,                \* the channel to the client: "open", "stalled" (the client has
                         \* stopped reading and its buffers are full) or "closed"
    inbox,               \* frames the server has written to each connection, in order
    closeCode,           \* close code the server sent on the channel, 0 if none
    nrecv,               \* frames received by the server so far
    nfault,              \* channels closed by the client and frames that raised, so far
    persisted,           \* history: <<room id, content>> pairs committed by update_room_code
    bstart,              \* history: registry entry when the task's latest broadcast started
    bsent,               \* history: connections the latest broadcast has sent to, in order
    bchanged,            \* history: the room's entry changed while the latest broadcast ran
    bfailed,             \* history: the connection whose send failed in the latest broadcast
    mgr_last,            \* manager harness: the last call and its outcome
    crud_last,           \* store harness: the last call and its outcome
    crud_puts,           \* store harness history: per room, the puts applied, in order
    cap,                 \* the run's budgets: frames the server receives, channels closed
                         \* and frames that raise, channels stalled, connections opened
    slog,                \* history: what each task has done since its accept, in order
    member,              \* history: "no" until the task's connect has returned, "joined"
                         \* from then until its disconnect call, "left" after it
    joinContent,         \* history: the room's stored content when connect returned
    get_db_state         \* dependency harness: for each request that has arrived, where
                         \* its get_db generator and its handler are, and what became
                         \* of `db`

vars == <<store, active_connections, pc, room, roomObj, data, conn, it, chan, inbox,
          closeCode, nrecv, nfault, persisted, bstart, bsent, bchanged, bfailed,
          mgr_last, crud_last, crud_puts, cap, get_db_state, slog, member, joinContent>>

sessVars == <<store, pc, room, roomObj, data, conn, it, chan, inbox, closeCode, nrecv, nfault,
              persisted, bstart, bsent, bchanged, bfailed, cap, get_db_state, slog, member,
              joinContent>>

\* what the ConnectionManager harness leaves alone
mgrFrame == <<sessVars, crud_last, crud_puts>>

\* ------------------------------------------------------------ list helpers
Range(list) == {list[i] : i \in 1..Len(list)}

\* list.index(x): position of the first occurrence
ListIndex(list, x) ==
    CHOOSE i \in 1..Len(list) : list[i] = x /\ \A j \in 1..(i - 1) : list[j] # x

\* a variant that fills the gap with the last item instead of shifting the tail
ListRemove_swaps(list, x) ==
    LET k == ListIndex(list, x)
    IN  [i \in 1..(Len(list) - 1) |-> IF i = k THEN list[Len(list)] ELSE list[i]]

\* list.remove(x): drops the first occurrence, the others keep their order
ListRemove(list, x) ==
    LET k == ListIndex(list, x)
    IN  [i \in 1..(Len(list) - 1) |-> IF i < k THEN list[i] ELSE list[i + 1]]

\* connections registered under a room id (none when the id has no entry)
Members(ac, r) == IF r \in DOMAIN ac THEN Range(ac[r]) ELSE {}

Registered(ac, ws) == \E r \in DOMAIN ac : ws \in Range(ac[r])

\* -------------------------------------------------------------- RoomStore
\* get_room_by_id: the Room row, or None
get_room_by_id(db, room_id) == db[room_id]

\* a variant without the `if room else None` guard (AttributeError on None)
get_room_code_raises_unguarded(db, room_id) == db[room_id] = NoRoom

\* get_room_code raises nothing: the attribute is read only when the query found a row
get_room_code_raises(db, room_id) == FALSE

\* a variant that answers with the column's default instead of the row's content
get_room_code_default(db, room_id) ==
    IF db[room_id] # NoRoom THEN EmptyText ELSE NoRoom

\* get_room_code: the row's code_content, or None
get_room_code(db, room_id) ==
    IF db[room_id] # NoRoom THEN db[room_id] ELSE NoRoom

\* a variant that commits whether or not the row exists
update_room_code_commits_always(db, room_id, code_content) == TRUE

\* update_room_code commits only when the row exists
update_room_code_commits(db, room_id, code_content) == db[room_id] # NoRoom

\* a variant that appends the new content to the old
update_room_code_merges(db, room_id, code_content) ==
    IF db[room_id] # NoRoom
    THEN [db EXCEPT ![room_id] = db[room_id] \o code_content]
    ELSE db

\* update_room_code: the row's code_content is replaced when the row exists
update_room_code(db, room_id, code_content) ==
    IF db[room_id] # NoRoom THEN [db EXCEPT ![room_id] = code_content] ELSE db

\* update_room_code has no return statement: its caller gets None whether or not the row
\* exists
update_room_code_returns(db, room_id, code_content) == NoRoom

\* ----------------------------------------------------- ConnectionManager
\* a variant that assigns a fresh list whether or not the room has an entry
connect_overwrites(ac, websocket, room_id) ==
    [k \in DOMAIN ac \cup {room_id} |-> IF k = room_id THEN <<websocket>> ELSE ac[k]]

\* a variant that creates the entry with the websocket already in it and then appends
connect_seeds_entry(ac, websocket, room_id) ==
    [k \in DOMAIN ac \cup {room_id} |->
        IF k = room_id
        THEN Append(IF room_id \in DOMAIN ac THEN ac[room_id] ELSE <<websocket>>, websocket)
        ELSE ac[k]]

\* connect, after the accept: create the entry if absent, append
connect(ac, websocket, room_id) ==
    [k \in DOMAIN ac \cup {room_id} |->
        IF k = room_id
        THEN Append(IF room_id \in DOMAIN ac THEN ac[room_id] ELSE <<>>, websocket)
        ELSE ac[k]]

\* a variant without the `if room_id in self.active_connections` guard (KeyError)
disconnect_raises_unguarded(ac, websocket, room_id) ==
    room_id \notin DOMAIN ac \/ websocket \notin Range(ac[room_id])

\* disconnect raises ValueError when the entry exists but does not hold the websocket
disconnect_raises(ac, websocket, room_id) ==
    room_id \in DOMAIN ac /\ websocket \notin Range(ac[room_id])

\* a variant that leaves the emptied list in the dict
disconnect_keeps_entry(ac, websocket, room_id) ==
    IF room_id \notin DOMAIN ac \/ websocket \notin Range(ac[room_id]) THEN ac
    ELSE [ac EXCEPT ![room_id] = ListRemove(ac[room_id], websocket)]

\* a variant that deletes the room's key whenever it removes a websocket
disconnect_drops_entry(ac, websocket, room_id) ==
    IF room_id \notin DOMAIN ac \/ websocket \notin Range(ac[room_id]) THEN ac
    ELSE [k \in DOMAIN ac \ {room_id} |-> ac[k]]

\* disconnect: remove from the room's list, delete the key when the list is empty (the
\* registry is as before when the call does nothing or raises)
disconnect(ac, websocket, room_id) ==
    IF room_id \notin DOMAIN ac \/ websocket \notin Range(ac[room_id]) THEN ac
    ELSE LET rest == ListRemove(ac[room_id], websocket)
         IN  IF rest = <<>>
             THEN [k \in DOMAIN ac \ {room_id} |-> ac[k]]
             ELSE [ac EXCEPT ![room_id] = rest]

\* a variant whose loop body does not skip the sender
NextRecipient_any(list, i, sender) == IF i <= Len(list) THEN i ELSE 0

\* broadcast's for loop: the list iterator reads list[i], list[i+1], ... of the list as it
\* is now and the body skips the sender; 0 when the iterator is exhausted
NextRecipient(list, i, sender) ==
    IF \E j \in i..Len(list) : list[j] # sender
    THEN CHOOSE j \in i..Len(list) :
            list[j] # sender /\ \A k \in i..(j - 1) : list[k] = sender
    ELSE 0

\* the sends of the for loop from iterator position i on, when no send suspends or
\* raises: <<connection, message>> pairs in the order of the send_text calls
RECURSIVE LoopSends(_, _, _, _)
LoopSends(list, i, message, sender) ==
    LET j == NextRecipient(list, i, sender)
    IN  IF j = 0 THEN <<>>
        ELSE <<(<<list[j], message>>)>> \o LoopSends(list, j + 1, message, sender)

\* a variant without the `if room_id in self.active_connections` guard (KeyError)
broadcast_raises_unguarded(ac, room_id) == room_id \notin DOMAIN ac

\* broadcast raises nothing of its own: the list is read only when the room has an entry
broadcast_raises(ac, room_id) == FALSE

\* broadcast's sends: none when the room has no entry
broadcast_sends(ac, message, room_id, sender) ==
    IF room_id \in DOMAIN ac THEN LoopSends(ac[room_id], 1, message, sender) ELSE <<>>

\* ------------------------------------------------------------------ state
InitWith(budget, db) ==
    /\ store = db
    /\ active_connections = <<>>
    /\ pc = [s \in Sessions |-> "idle"]
    /\ room = [s \in Sessions |-> NoRoom]
    /\ roomObj = [s \in Sessions |-> NoRoom]
    /\ data = [s \in Sessions |-> NoConn]
    /\ conn = [s \in Sessions |-> NoConn]
    /\ it = [s \in Sessions |-> 0]
    /\ chan = [s \in Sessions |-> "closed"]
    /\ inbox = [s \in Sessions |-> <<>>]
    /\ closeCode = [s \in Sessions |-> 0]
    /\ nrecv = 0
    /\ nfault = 0
    /\ persisted = {}
    /\ bstart = [s \in Sessions |-> <<>>]
    /\ bsent = [s \in Sessions |-> <<>>]
    /\ bchanged = [s \in Sessions |-> FALSE]
    /\ bfailed = [s \in Sessions |-> NoConn]
    /\ mgr_last = [op |-> "none", ws |-> NoConn, room |-> NoRoom, raised |-> FALSE,
                   sent |-> <<>>, before |-> <<>>]
    /\ crud_last = [op |-> "none", by |-> NoConn, room |-> NoRoom, arg |-> NoConn,
                    result |-> NoConn, raised |-> FALSE, committed |-> FALSE,
                    before |-> store]
    /\ crud_puts = [r \in RoomIds |-> <<>>]
    /\ cap = budget
    /\ slog = [s \in Sessions |-> <<>>]
    /\ member = [s \in Sessions |-> "no"]
    /\ joinContent = [s \in Sessions |-> NoRoom]
    /\ get_db_state = <<>>

Init ==
    InitWith([msgs |-> MaxMsgs, faults |-> MaxFaults, stalls |-> 0, sessions |-> CoreSessions],
             [r \in RoomIds |-> NoRoom])

\* a task has ended: ws_coding returned, or an exception left it
Ended(s) == pc[s] \in {"done", "crashed"}

\* a broadcast of task s is suspended in a send to a client that has stopped reading
Stalled(s) == pc[s] = "sent" /\ chan[conn[s]] = "stalled"

\* an entry of a task's log: what it did and which rooms had a stalled broadcast then
Event(kind, msg, to) ==
    [kind |-> kind, msg |-> msg, to |-> to,
     while |-> {room[x] : x \in {y \in Sessions : Stalled(y)}}]

\* a change of room r's entry is seen by every broadcast of r that is suspended in a send
MarkChanged(r) ==
    [t \in Sessions |-> bchanged[t] \/ (pc[t] \in {"broadcasting", "sent"} /\ room[t] = r)]

\* ---------------------------------------------------------------- RoomStore
\* create_room: a new row with empty content under the generated id (a generated id
\* that is already a primary key fails the commit and changes nothing)
create_room(id) ==
    /\ store[id] = NoRoom
    /\ \A i \in 1..Len(RoomOrder) :
          RoomOrder[i] = id => \A j \in 1..(i - 1) : store[RoomOrder[j]] # NoRoom
    /\ store' = [store EXCEPT ![id] = EmptyText]
    /\ UNCHANGED <<active_connections, pc, room, roomObj, data, conn, it, chan, inbox,
                   closeCode, nrecv, nfault, persisted, bstart, bsent, bchanged, bfailed,
                   mgr_last, crud_last, crud_puts, cap, get_db_state, slog, member, joinContent>>

\* ---------------------------------------------------------------- ws_coding
\* connections are opened in the order of SessionOrder (they are interchangeable before)
OpensNext(s) ==
    /\ s \in cap.sessions
    /\ \A i \in 1..Len(SessionOrder) :
          SessionOrder[i] = s => \A j \in 1..(i - 1) : pc[SessionOrder[j]] # "idle"

\* a variant that joins without looking at the lookup's result
ws_coding_start_unchecked(s, r) ==
    /\ pc[s] = "idle"
    /\ OpensNext(s)
    /\ room' = [room EXCEPT ![s] = r]
    /\ roomObj' = [roomObj EXCEPT ![s] = get_room_by_id(store, r)]
    /\ chan' = [chan EXCEPT ![s] = "open"]
    /\ pc' = [pc EXCEPT ![s] = "accepting"]
    /\ UNCHANGED <<store, active_connections, data, conn, it, inbox, closeCode, nrecv, nfault,
                   persisted, bstart, bsent, bchanged, bfailed,
                   mgr_last, crud_last, crud_puts, cap, get_db_state, slog, member, joinContent>>

\* a variant whose connect registers the websocket before it awaits the accept
ws_coding_start_registers_first(s, r) ==
    /\ pc[s] = "idle"
    /\ OpensNext(s)
    /\ room' = [room EXCEPT ![s] = r]
    /\ roomObj' = [roomObj EXCEPT ![s] = get_room_by_id(store, r)]
    /\ chan' = [chan EXCEPT ![s] = "open"]
    /\ pc' = [pc EXCEPT ![s] =
                IF get_room_by_id(store, r) = NoRoom THEN "closing" ELSE "accepting"]
    /\ active_connections' =
          IF get_room_by_id(store, r) = NoRoom THEN active_connections
          ELSE connect(active_connections, s, r)
    /\ UNCHANGED <<store, data, conn, it, inbox, closeCode, nrecv, nfault,
                   persisted, bstart, bsent, bchanged, bfailed,
                   mgr_last, crud_last, crud_puts, cap, get_db_state, slog, member, joinContent>>

\* the client opens /ws/{r}: the handler looks the room up and either starts closing the
\* channel (room missing) or enters manager.connect and awaits the accept
ws_coding_start(s, r) ==
    /\ pc[s] = "idle"
    /\ OpensNext(s)
    /\ room' = [room EXCEPT ![s] = r]
    /\ roomObj' = [roomObj EXCEPT ![s] = get_room_by_id(store, r)]
    /\ chan' = [chan EXCEPT ![s] = "open"]
    /\ pc' = [pc EXCEPT ![s] =
                IF get_room_by_id(store, r) = NoRoom THEN "closing" ELSE "accepting"]
    /\ UNCHANGED <<store, active_connections, data, conn, it, inbox, closeCode, nrecv, nfault,
                   persisted, bstart, bsent, bchanged, bfailed,
                   mgr_last, crud_last, crud_puts, cap, get_db_state, slog, member, joinContent>>

\* a variant that closes with the normal-closure code
ws_coding_reject_normal(s) ==
    /\ pc[s] = "closing"
    /\ pc' = [pc EXCEPT ![s] = "done"]
    /\ closeCode' = [closeCode EXCEPT ![s] = 1000]
    /\ chan' = [chan EXCEPT ![s] = "closed"]
    /\ UNCHANGED <<store, active_connections, room, roomObj, data, conn, it, inbox, nrecv, nfault,
                   persisted, bstart, bsent, bchanged, bfailed,
                   mgr_last, crud_last, crud_puts, cap, get_db_state, slog, member, joinContent>>

\* the close of a rejected channel completes; the handler logs and returns
ws_coding_reject(s) ==
    /\ pc[s] = "closing"
    /\ pc' = [pc EXCEPT ![s] = "done"]
    /\ closeCode' = [closeCode EXCEPT ![s] = WS_1008_POLICY_VIOLATION]
    /\ chan' = [chan EXCEPT ![s] = "closed"]
    /\ UNCHANGED <<store, active_connections, room, roomObj, data, conn, it, inbox, nrecv, nfault,
                   persisted, bstart, bsent, bchanged, bfailed,
                   mgr_last, crud_last, crud_puts, cap, get_db_state, slog, member, joinContent>>

\* a variant in which connect waits for a lock of the manager that a broadcast holds for
\* as long as it runs
ws_coding_connected_locked(s) ==
    /\ pc[s] = "accepting"
    /\ chan[s] = "open"
    /\ \A x \in Sessions : pc[x] \notin {"broadcasting", "sent"}
    /\ active_connections' = connect(active_connections, s, room[s])
    /\ bchanged' = MarkChanged(room[s])
    /\ IF roomObj[s] # EmptyText
       THEN /\ inbox' = [inbox EXCEPT ![s] =
                           Append(@, [kind |-> "initial", msg |-> roomObj[s], from |-> s])]
            /\ pc' = [pc EXCEPT ![s] = "sending_initial"]
       ELSE /\ inbox' = inbox
            /\ pc' = [pc EXCEPT ![s] = "receiving"]
    /\ member' = [member EXCEPT ![s] = "joined"]
    /\ joinContent' = [joinContent EXCEPT ![s] = store[room[s]]]
    /\ slog' = [slog EXCEPT ![s] = Append(@, Event("join", NoConn, NoConn))]
    /\ UNCHANGED <<store, room, roomObj, data, conn, it, chan, closeCode, nrecv, nfault,
                   persisted, bstart, bsent, bfailed, mgr_last, crud_last, crud_puts, cap,
                   get_db_state>>

\* the accept completes: connect registers the websocket and returns; the handler reads
\* room.code_content of the object its lookup loaded and, when that is not empty, calls
\* send_text, which writes the frame to the channel and suspends until the write has
\* drained; otherwise it awaits the first frame
ws_coding_connected(s) ==
    /\ pc[s] = "accepting"
    /\ chan[s] = "open"
    /\ active_connections' = connect(active_connections, s, room[s])
    /\ bchanged' = MarkChanged(room[s])
    /\ IF roomObj[s] # EmptyText
       THEN /\ inbox' = [inbox EXCEPT ![s] =
                           Append(@, [kind |-> "initial", msg |-> roomObj[s], from |-> s])]
            /\ pc' = [pc EXCEPT ![s] = "sending_initial"]
       ELSE /\ inbox' = inbox
            /\ pc' = [pc EXCEPT ![s] = "receiving"]
    /\ member' = [member EXCEPT ![s] = "joined"]
    /\ joinContent' = [joinContent EXCEPT ![s] = store[room[s]]]
    /\ slog' = [slog EXCEPT ![s] = Append(@, Event("join", NoConn, NoConn))]
    /\ UNCHANGED <<store, room, roomObj, data, conn, it, chan, closeCode, nrecv, nfault,
                   persisted, bstart, bsent, bfailed, mgr_last, crud_last, crud_puts, cap,
                   get_db_state>>

\* the accept raises (the client has gone): the exception leaves connect and ws_coding
connect_accept_fails(s) ==
    /\ pc[s] = "accepting"
    /\ chan[s] = "closed"
    /\ pc' = [pc EXCEPT ![s] = "crashed"]
    /\ UNCHANGED <<store, active_connections, room, roomObj, data, conn, it, chan, inbox,
                   closeCode, nrecv, nfault, persisted, bstart, bsent, bchanged, bfailed,
                   mgr_last, crud_last, crud_puts, cap, get_db_state, slog, member, joinContent>>

\* the write of the initial frame has drained: the handler enters the loop and awaits
\* the first frame
ws_coding_initial_sent(s) ==
    /\ pc[s] = "sending_initial"
    /\ chan[s] = "open"
    /\ pc' = [pc EXCEPT ![s] = "receiving"]
    /\ UNCHANGED <<store, active_connections, room, roomObj, data, conn, it, chan, inbox,
                   closeCode, nrecv, nfault, persisted, bstart, bsent, bchanged, bfailed,
                   mgr_last, crud_last, crud_puts, cap, get_db_state, slog, member, joinContent>>

\* the initial send raises: it is outside the try block, the exception leaves ws_coding
ws_coding_initial_fails(s) ==
    /\ pc[s] = "sending_initial"
    /\ chan[s] = "closed"
    /\ pc' = [pc EXCEPT ![s] = "crashed"]
    /\ UNCHANGED <<store, active_connections, room, roomObj, data, conn, it, chan, inbox,
                   closeCode, nrecv, nfault, persisted, bstart, bsent, bchanged, bfailed,
                   mgr_last, crud_last, crud_puts, cap, get_db_state, slog, member, joinContent>>

\* a variant whose channel hands the client the frame written last first
broadcast_loop_newest_first(s, i, message, sentBefore, logBefore) ==
    LET list == IF room[s] \in DOMAIN active_connections
                THEN active_connections[room[s]] ELSE <<>>
        j == NextRecipient(list, i, s)
    IN  IF j = 0
        THEN /\ pc' = [pc EXCEPT ![s] = "receiving"]
             /\ conn' = [conn EXCEPT ![s] = NoConn]
             /\ it' = [it EXCEPT ![s] = 0]
             /\ bsent' = [bsent EXCEPT ![s] = sentBefore]
             /\ slog' = [slog EXCEPT ![s] =
                     Append(logBefore, Event("end", message, NoConn))]
             /\ inbox' = inbox
        ELSE /\ conn' = [conn EXCEPT ![s] = list[j]]
             /\ it' = [it EXCEPT ![s] = j + 1]
             /\ IF chan[list[j]] = "closed"
                THEN /\ pc' = [pc EXCEPT ![s] = "broadcasting"]
                     /\ bsent' = [bsent EXCEPT ![s] = sentBefore]
                     /\ slog' = [slog EXCEPT ![s] = logBefore]
                     /\ inbox' = inbox
                ELSE /\ pc' = [pc EXCEPT ![s] = "sent"]
                     /\ bsent' = [bsent EXCEPT ![s] = Append(sentBefore, list[j])]
                     /\ slog' = [slog EXCEPT ![s] =
                             Append(logBefore,
                                    Event("send", message, list[j]))]
                     /\ inbox' = [inbox EXCEPT ![list[j]] =
                             <<[kind |-> "update", msg |-> message, from |-> s]>> \o @]

\* broadcast's loop from iterator position i up to its next await (or to its end, where
\* ws_coding awaits the next frame).  send_text on a channel that is not closed writes
\* the frame and suspends the task until the write has drained ("sent"); on a closed
\* channel it is about to raise ("broadcasting").  sentBefore is what this broadcast had
\* sent before the step.
broadcast_loop(s, i, message, sentBefore, logBefore) ==
    LET list == IF room[s] \in DOMAIN active_connections
                THEN active_connections[room[s]] ELSE <<>>
        j == NextRecipient(list, i, s)
    IN  IF j = 0
        THEN /\ pc' = [pc EXCEPT ![s] = "receiving"]
             /\ conn' = [conn EXCEPT ![s] = NoConn]
             /\ it' = [it EXCEPT ![s] = 0]
             /\ bsent' = [bsent EXCEPT ![s] = sentBefore]
             /\ slog' = [slog EXCEPT ![s] =
                     Append(logBefore, Event("end", message, NoConn))]
             /\ inbox' = inbox
        ELSE /\ conn' = [conn EXCEPT ![s] = list[j]]
             /\ it' = [it EXCEPT ![s] = j + 1]
             /\ IF chan[list[j]] = "closed"
                THEN /\ pc' = [pc EXCEPT ![s] = "broadcasting"]
                     /\ bsent' = [bsent EXCEPT ![s] = sentBefore]
                     /\ slog' = [slog EXCEPT ![s] = logBefore]
                     /\ inbox' = inbox
                ELSE /\ pc' = [pc EXCEPT ![s] = "sent"]
                     /\ bsent' = [bsent EXCEPT ![s] = Append(sentBefore, list[j])]
                     /\ slog' = [slog EXCEPT ![s] =
                             Append(logBefore,
                                    Event("send", message, list[j]))]
                     /\ inbox' = [inbox EXCEPT ![list[j]] =
                             Append(@, [kind |-> "update", msg |-> message, from |-> s])]

\* frame values are interchangeable: the k-th frame received is one of the first k values
FirstUse(m) ==
    \A i \in 1..Len(MsgOrder) :
        MsgOrder[i] = m => i <= nrecv + 1

\* a variant that starts the broadcast without persisting the frame
ws_coding_receive_unpersisted(s, m) ==
    /\ pc[s] = "receiving"
    /\ chan[s] = "open"
    /\ nrecv < cap.msgs
    /\ FirstUse(m)
    /\ nrecv' = nrecv + 1
    /\ data' = [data EXCEPT ![s] = m]
    /\ bstart' = [bstart EXCEPT ![s] = IF room[s] \in DOMAIN active_connections
                                       THEN active_connections[room[s]] ELSE <<>>]
    /\ bchanged' = [bchanged EXCEPT ![s] = FALSE]
    /\ bfailed' = [bfailed EXCEPT ![s] = NoConn]
    /\ broadcast_loop(s, 1, m, <<>>,
                      Append(slog[s], Event("recv", m, NoConn)))
    /\ UNCHANGED <<store, persisted, active_connections, room, roomObj, chan,
                   closeCode, nfault, mgr_last, crud_last, crud_puts, cap, get_db_state, member,
                   joinContent>>

\* a variant that reads the next frame while the broadcast of the previous one is still
\* suspended in a send
ws_coding_receive_overlapping(s, m) ==
    /\ pc[s] \in {"receiving", "sent"}
    /\ chan[s] = "open"
    /\ nrecv < cap.msgs
    /\ FirstUse(m)
    /\ nrecv' = nrecv + 1
    /\ data' = [data EXCEPT ![s] = m]
    /\ store' = update_room_code(store, room[s], m)
    /\ persisted' = IF update_room_code_commits(store, room[s], m)
                    THEN persisted \cup {<<room[s], m>>} ELSE persisted
    /\ bstart' = [bstart EXCEPT ![s] = IF room[s] \in DOMAIN active_connections
                                       THEN active_connections[room[s]] ELSE <<>>]
    /\ bchanged' = [bchanged EXCEPT ![s] = FALSE]
    /\ bfailed' = [bfailed EXCEPT ![s] = NoConn]
    /\ broadcast_loop(s, 1, m, <<>>,
                      slog[s] \o <<Event("recv", m, NoConn)>>
                              \o (IF update_room_code_commits(store, room[s], m)
                                  THEN <<Event("put", m, NoConn)>>
                                  ELSE <<>>))
    /\ UNCHANGED <<active_connections, room, roomObj, chan, closeCode, nfault,
                   mgr_last, crud_last, crud_puts, cap, get_db_state, member, joinContent>>

\* a variant that broadcasts the content the room had before the put
ws_coding_receive_previous(s, m) ==
    /\ pc[s] = "receiving"
    /\ chan[s] = "open"
    /\ nrecv < cap.msgs
    /\ FirstUse(m)
    /\ nrecv' = nrecv + 1
    /\ data' = [data EXCEPT ![s] = m]
    /\ store' = update_room_code(store, room[s], m)
    /\ persisted' = IF update_room_code_commits(store, room[s], m)
                    THEN persisted \cup {<<room[s], m>>} ELSE persisted
    /\ bstart' = [bstart EXCEPT ![s] = IF room[s] \in DOMAIN active_connections
                                       THEN active_connections[room[s]] ELSE <<>>]
    /\ bchanged' = [bchanged EXCEPT ![s] = FALSE]
    /\ bfailed' = [bfailed EXCEPT ![s] = NoConn]
    /\ broadcast_loop(s, 1, store[room[s]], <<>>,
                      slog[s] \o <<Event("recv", m, NoConn)>>
                              \o (IF update_room_code_commits(store, room[s], m)
                                  THEN <<Event("put", m, NoConn)>>
                                  ELSE <<>>))
    /\ UNCHANGED <<active_connections, room, roomObj, chan, closeCode, nfault,
                   mgr_last, crud_last, crud_puts, cap, get_db_state, member, joinContent>>

\* receive_text returns frame m: update_room_code, then broadcast up to its first await
ws_coding_receive(s, m) ==
    /\ pc[s] = "receiving"
    /\ chan[s] = "open"
    /\ nrecv < cap.msgs
    /\ FirstUse(m)
    /\ nrecv' = nrecv + 1
    /\ data' = [data EXCEPT ![s] = m]
    /\ store' = update_room_code(store, room[s], m)
    /\ persisted' = IF update_room_code_commits(store, room[s], m)
                    THEN persisted \cup {<<room[s], m>>} ELSE persisted
    /\ bstart' = [bstart EXCEPT ![s] = IF room[s] \in DOMAIN active_connections
                                       THEN active_connections[room[s]] ELSE <<>>]
    /\ bchanged' = [bchanged EXCEPT ![s] = FALSE]
    /\ bfailed' = [bfailed EXCEPT ![s] = NoConn]
    /\ broadcast_loop(s, 1, m, <<>>,
                      slog[s] \o <<Event("recv", m, NoConn)>>
                              \o (IF update_room_code_commits(store, room[s], m)
                                  THEN <<Event("put", m, NoConn)>>
                                  ELSE <<>>))
    /\ UNCHANGED <<active_connections, room, roomObj, chan, closeCode, nfault,
                   mgr_last, crud_last, crud_puts, cap, get_db_state, member, joinContent>>

\* the write of the pending send_text has drained and the event loop resumes the sender's
\* task: the for loop asks its iterator for the next connection.  A write to a stalled
\* channel does not drain.
broadcast_resumed(s) ==
    /\ pc[s] = "sent"
    /\ chan[conn[s]] # "stalled"
    /\ broadcast_loop(s, it[s], data[s], bsent[s], slog[s])
    /\ UNCHANGED <<store, active_connections, room, roomObj, data, chan, closeCode,
                   nrecv, nfault, persisted, bstart, bchanged, bfailed,
                   mgr_last, crud_last, crud_puts, cap, get_db_state, member, joinContent>>

\* send_text raises (the recipient's channel is closed).  The exception leaves
\* broadcast; which exception it is depends on the server library: a WebSocketDisconnect is
\* caught by ws_coding, which then disconnects the sender, any other leaves ws_coding
broadcast_send_fails(s, isDisconnect) ==
    /\ pc[s] = "broadcasting"
    /\ chan[conn[s]] = "closed"
    /\ bfailed' = [bfailed EXCEPT ![s] = conn[s]]
    /\ conn' = [conn EXCEPT ![s] = NoConn]
    /\ it' = [it EXCEPT ![s] = 0]
    /\ chan' = [chan EXCEPT ![s] = "closed"]
    /\ IF isDisconnect
       THEN /\ active_connections' = disconnect(active_connections, s, room[s])
            /\ bchanged' = MarkChanged(room[s])
            /\ member' = [member EXCEPT ![s] = "left"]
            /\ slog' = [slog EXCEPT ![s] = Append(@, Event("leave", NoConn, NoConn))]
            /\ pc' = [pc EXCEPT ![s] = "done"]
       ELSE /\ pc' = [pc EXCEPT ![s] = "crashed"]
            /\ UNCHANGED <<active_connections, bchanged, member, slog>>
    /\ UNCHANGED <<store, room, roomObj, data, inbox, closeCode, nrecv, nfault, persisted, bstart,
                   bsent, mgr_last, crud_last, crud_puts, cap, get_db_state, joinContent>>

\* receive_text raises WebSocketDisconnect: the except clause disconnects and returns
ws_coding_disconnected(s) ==
    /\ pc[s] = "receiving"
    /\ chan[s] = "closed"
    /\ ~disconnect_raises(active_connections, s, room[s])
    /\ active_connections' = disconnect(active_connections, s, room[s])
    /\ bchanged' = MarkChanged(room[s])
    /\ member' = [member EXCEPT ![s] = "left"]
    /\ pc' = [pc EXCEPT ![s] = "done"]
    /\ slog' = [slog EXCEPT ![s] = Append(@, Event("leave", NoConn, NoConn))]
    /\ UNCHANGED <<store, room, roomObj, data, conn, it, chan, inbox, closeCode, nrecv, nfault,
                   persisted, bstart, bsent, bfailed,
                   mgr_last, crud_last, crud_puts, cap, get_db_state, joinContent>>

\* receive_text or update_room_code raises something else (a frame that is not text, a
\* failed commit): no except clause matches and the exception leaves ws_coding
ws_coding_loop_error(s) ==
    /\ pc[s] = "receiving"
    /\ chan[s] = "open"
    /\ nfault < cap.faults
    /\ nfault' = nfault + 1
    /\ pc' = [pc EXCEPT ![s] = "crashed"]
    /\ chan' = [chan EXCEPT ![s] = "closed"]
    /\ UNCHANGED <<store, active_connections, room, roomObj, data, conn, it, inbox,
                   closeCode, nrecv, persisted, bstart, bsent, bchanged, bfailed,
                   mgr_last, crud_last, crud_puts, cap, get_db_state, slog, member, joinContent>>

\* the client stops reading: writes to its channel no longer drain
client_stall(s) ==
    /\ pc[s] \in {"sending_initial", "receiving", "broadcasting", "sent"}
    /\ chan[s] = "open"
    /\ Cardinality({t \in Sessions : chan[t] = "stalled"}) < cap.stalls
    /\ chan' = [chan EXCEPT ![s] = "stalled"]
    /\ UNCHANGED <<store, active_connections, pc, room, roomObj, data, conn, it, inbox,
                   closeCode, nrecv, nfault, persisted, bstart, bsent, bchanged, bfailed,
                   mgr_last, crud_last, crud_puts, cap, get_db_state, slog, member, joinContent>>

\* the client (or the network) closes the channel
client_close(s) ==
    /\ pc[s] \in {"accepting", "sending_initial", "receiving", "broadcasting", "sent"}
    /\ chan[s] \in {"open", "stalled"}
    /\ nfault < cap.faults
    /\ nfault' = nfault + 1
    /\ chan' = [chan EXCEPT ![s] = "closed"]
    /\ UNCHANGED <<store, active_connections, pc, room, roomObj, data, conn, it, inbox,
                   closeCode, nrecv, persisted, bstart, bsent, bchanged, bfailed,
                   mgr_last, crud_last, crud_puts, cap, get_db_state, slog, member, joinContent>>

Next ==
    \/ \E id \in RoomIds : create_room(id)
    \/ \E s \in Sessions, r \in RoomIds : ws_coding_start(s, r)
    \/ \E s \in Sessions : ws_coding_reject(s)
    \/ \E s \in Sessions : ws_coding_connected(s)
    \/ \E s \in Sessions : connect_accept_fails(s)
    \/ \E s \in Sessions : ws_coding_initial_sent(s)
    \/ \E s \in Sessions : ws_coding_initial_fails(s)
    \/ \E s \in Sessions, m \in Msgs : ws_coding_receive(s, m)
    \/ \E s \in Sessions : broadcast_resumed(s)
    \/ \E s \in Sessions, isDisconnect \in BOOLEAN : broadcast_send_fails(s, isDisconnect)
    \/ \E s \in Sessions : ws_coding_disconnected(s)
    \/ \E s \in Sessions : ws_coding_loop_error(s)
    \/ \E s \in Sessions : client_close(s)

Spec == Init /\ [][Next]_vars

\* ------------------------------------------------- the relay with stalled clients
\* The rooms exist from the start, a client may stop reading,
\* and the event loop runs every task that is ready: a task whose await has completed
\* (or failed) is resumed.
MaxStallMsgs == 2                      \* frames received by the server, in total
MaxStallFaults == 1                    \* channels closed by the client
MaxStalls == 1                         \* clients that stop reading

InitStall ==
    InitWith([msgs |-> MaxStallMsgs, faults |-> MaxStallFaults, stalls |-> MaxStalls,
              sessions |-> CoreSessions],
             [r \in RoomIds |-> EmptyText])

\* the rooms are interchangeable here: they are opened in the order of RoomOrder
ws_coding_start_in_order(s, r) ==
    /\ \A i \in 1..Len(RoomOrder) :
          RoomOrder[i] = r =>
              \A j \in 1..(i - 1) : \E x \in Sessions : room[x] = RoomOrder[j]
    /\ ws_coding_start(s, r)

\* the steps of task s that wait for nothing from its client
TaskStep(s) ==
    \/ ws_coding_connected(s)
    \/ connect_accept_fails(s)
    \/ ws_coding_initial_sent(s)
    \/ ws_coding_initial_fails(s)
    \/ broadcast_resumed(s)
    \/ \E isDisconnect \in BOOLEAN : broadcast_send_fails(s, isDisconnect)
    \/ ws_coding_disconnected(s)

NextStall ==
    \/ \E s \in Sessions, r \in RoomIds : ws_coding_start_in_order(s, r)
    \/ \E s \in Sessions : ws_coding_connected(s)
    \/ \E s \in Sessions : connect_accept_fails(s)
    \/ \E s \in Sessions : ws_coding_initial_sent(s)
    \/ \E s \in Sessions : ws_coding_initial_fails(s)
    \/ \E s \in Sessions, m \in Msgs : ws_coding_receive(s, m)
    \/ \E s \in Sessions : broadcast_resumed(s)
    \/ \E s \in Sessions, isDisconnect \in BOOLEAN : broadcast_send_fails(s, isDisconnect)
    \/ \E s \in Sessions : ws_coding_disconnected(s)
    \/ \E s \in Sessions : client_stall(s)
    \/ \E s \in Sessions : client_close(s)

SpecStall ==
    /\ InitStall
    /\ [][NextStall]_vars
    /\ \A s \in Sessions : WF_vars(TaskStep(s))

\* the relay of Spec (rooms created while sessions run, no client stalls) under the same
\* scheduling: every task that is ready is resumed; what a client does and when is left
\* open
SpecFair ==
    /\ Init
    /\ [][Next]_vars
    /\ \A s \in Sessions : WF_vars(TaskStep(s))

\* ------------------------------------------------- ConnectionManager harness
\* The manager alone, called with any websocket and any room id in any order, with
\* channels whose accept returns at once (as its unit tests call it).
mgr_connect(ws, r) ==
    /\ Len(IF r \in DOMAIN active_connections THEN active_connections[r] ELSE <<>>) < MaxList
    /\ active_connections' = connect(active_connections, ws, r)
    /\ mgr_last' = [op |-> "connect", ws |-> ws, room |-> r, raised |-> FALSE,
                    sent |-> <<>>, before |-> active_connections]
    /\ UNCHANGED mgrFrame

mgr_disconnect(ws, r) ==
    /\ active_connections' = disconnect(active_connections, ws, r)
    /\ mgr_last' = [op |-> "disconnect", ws |-> ws, room |-> r,
                    raised |-> disconnect_raises(active_connections, ws, r),
                    sent |-> <<>>, before |-> active_connections]
    /\ UNCHANGED mgrFrame

\* broadcast on channels whose sends return at once: the whole for loop runs as one step
\* and nothing raises
mgr_broadcast(ws, r, m) ==
    /\ active_connections' = active_connections
    /\ mgr_last' = [op |-> "broadcast", ws |-> ws, room |-> r,
                    raised |-> broadcast_raises(active_connections, r),
                    sent |-> broadcast_sends(active_connections, m, r, ws),
                    before |-> active_connections]
    /\ UNCHANGED mgrFrame

NextMgr ==
    \/ \E ws \in cap.sessions, r \in RoomIds : mgr_connect(ws, r)
    \/ \E ws \in cap.sessions, r \in RoomIds : mgr_disconnect(ws, r)
    \/ \E ws \in cap.sessions, r \in RoomIds, m \in Msgs : mgr_broadcast(ws, r, m)

SpecMgr == Init /\ [][NextMgr]_vars

\* ------------------------------------------------------------ RoomStore harness
\* The functions of room_crud alone, called for any room id in any order by any of the
\* sessions.  Each call runs from its query to its commit without an await, so the calls
\* of different tasks follow one another.
MaxPuts == 3                           \* update_room_code calls of a run

crudFrame == <<active_connections, pc, room, roomObj, data, conn, it, chan, inbox,
               closeCode, nfault, persisted, bstart, bsent, bchanged, bfailed,
               mgr_last, cap, get_db_state, slog, member, joinContent>>

\* create_room checks nothing before its INSERT: the commit of a row whose room_id is
\* already a primary key of the table raises
create_room_raises(db, room_id) == db[room_id] # NoRoom

\* create_room's table after the call: a new row with empty content, or the table as it
\* was when the commit raised
create_room_rows(db, room_id) ==
    IF db[room_id] = NoRoom THEN [db EXCEPT ![room_id] = EmptyText] ELSE db

\* create_room, where id is the value of str(uuid.uuid4())[:8]: any of the identifiers
crud_create_room(id) ==
    /\ store' = create_room_rows(store, id)
    /\ crud_last' = [op |-> "create_room", by |-> NoConn, room |-> id, arg |-> NoConn,
                     result |-> IF create_room_raises(store, id) THEN NoConn ELSE id,
                     raised |-> create_room_raises(store, id),
                     committed |-> ~create_room_raises(store, id),
                     before |-> store]
    /\ UNCHANGED <<crudFrame, nrecv, crud_puts>>

crud_get_room_code(s, r) ==
    /\ crud_last' = [op |-> "get_room_code", by |-> s, room |-> r, arg |-> NoConn,
                     result |-> get_room_code(store, r),
                     raised |-> get_room_code_raises(store, r),
                     committed |-> FALSE, before |-> store]
    /\ UNCHANGED <<crudFrame, store, nrecv, crud_puts>>

crud_get_room_by_id(s, r) ==
    /\ crud_last' = [op |-> "get_room_by_id", by |-> s, room |-> r, arg |-> NoConn,
                     result |-> get_room_by_id(store, r), raised |-> FALSE,
                     committed |-> FALSE, before |-> store]
    /\ UNCHANGED <<crudFrame, store, nrecv, crud_puts>>

crud_update_room_code(s, r, m) ==
    /\ nrecv < cap.msgs
    /\ nrecv' = nrecv + 1
    /\ store' = update_room_code(store, r, m)
    /\ crud_last' = [op |-> "update_room_code", by |-> s, room |-> r, arg |-> m,
                     result |-> update_room_code_returns(store, r, m),
                     raised |-> FALSE,
                     committed |-> update_room_code_commits(store, r, m),
                     before |-> store]
    /\ crud_puts' = IF store[r] # NoRoom
                    THEN [crud_puts EXCEPT ![r] = Append(@, <<s, m>>)]
                    ELSE crud_puts
    /\ UNCHANGED crudFrame

InitStore ==
    InitWith([msgs |-> MaxPuts, faults |-> 0, stalls |-> 0, sessions |-> CoreSessions],
             [r \in RoomIds |-> NoRoom])

NextStore ==
    \/ \E id \in RoomIds : crud_create_room(id)
    \/ \E s \in cap.sessions, r \in RoomIds : crud_get_room_code(s, r)
    \/ \E s \in cap.sessions, r \in RoomIds : crud_get_room_by_id(s, r)
    \/ \E s \in cap.sessions, r \in RoomIds, m \in Msgs : crud_update_room_code(s, r, m)

SpecStore == InitStore /\ [][NextStore]_vars

\* ------------------------------------------------------------ get_db harness
\* The generator get_db as the framework drives it for each request or websocket session:
\* it is advanced to its yield before the handler is called, the handler runs with the
\* session it yielded, and when the handler has returned the generator is resumed, when
\* the handler has raised the exception is thrown into it at the yield.
MaxUses == 2                           \* calls a handler makes on its session

dbFrame == <<store, active_connections, pc, room, roomObj, data, conn, it, chan, inbox,
             closeCode, nrecv, nfault, persisted, bstart, bsent, bchanged, bfailed,
             mgr_last, crud_last, crud_puts, cap, slog, member, joinContent>>

\* a variant without the try/finally: close follows the yield as a plain statement
get_db_closes_without_finally(how) == how = "resume"

\* db.close() is in the finally clause of the try block that holds the yield: it runs when
\* the generator is resumed and when an exception is thrown into it
get_db_closes(how) == TRUE

\* get_db after it is left at the yield in the way `how`: the generator has finished, db
\* has been closed if the close ran, and an exception thrown in has propagated
get_db_leave(g, how) ==
    [g EXCEPT !.gen = "finished",
              !.db = IF get_db_closes(how) THEN "closed" ELSE g.db,
              !.closes = IF get_db_closes(how) THEN g.closes + 1 ELSE g.closes,
              !.propagated = (how = "throw")]

\* request q arrives and next(get_db()) is called for it: db = SessionLocal(), the try
\* block is entered and db is yielded; the handler is called with it
get_db_next(q) ==
    /\ q \notin DOMAIN get_db_state
    /\ get_db_state' =
          [k \in DOMAIN get_db_state \cup {q} |->
              IF k = q
              THEN [gen |-> "yielded", handler |-> "running", db |-> "open", closes |-> 0,
                    uses |-> 0, usedClosed |-> FALSE, propagated |-> FALSE]
              ELSE get_db_state[k]]
    /\ UNCHANGED dbFrame

\* the handler makes a call on its session (a query, a commit); none of the handlers and
\* none of the functions of room_crud closes it
handler_uses_db(q) ==
    /\ q \in DOMAIN get_db_state
    /\ get_db_state[q].handler = "running"
    /\ get_db_state[q].uses < MaxUses
    /\ get_db_state' = [get_db_state EXCEPT ![q] =
                           [@ EXCEPT !.uses = @ + 1,
                                     !.usedClosed = @ \/ get_db_state[q].db # "open"]]
    /\ UNCHANGED dbFrame

handler_returns(q) ==
    /\ q \in DOMAIN get_db_state
    /\ get_db_state[q].handler = "running"
    /\ get_db_state' = [get_db_state EXCEPT ![q] = [@ EXCEPT !.handler = "returned"]]
    /\ UNCHANGED dbFrame

handler_raises(q) ==
    /\ q \in DOMAIN get_db_state
    /\ get_db_state[q].handler = "running"
    /\ get_db_state' = [get_db_state EXCEPT ![q] = [@ EXCEPT !.handler = "raised"]]
    /\ UNCHANGED dbFrame

\* the handler has returned: the generator is resumed, leaves the try block through the
\* finally clause and ends
get_db_resume(q) ==
    /\ q \in DOMAIN get_db_state
    /\ get_db_state[q].gen = "yielded"
    /\ get_db_state[q].handler = "returned"
    /\ get_db_state' = [get_db_state EXCEPT ![q] = get_db_leave(@, "resume")]
    /\ UNCHANGED dbFrame

\* the handler has raised: the exception is thrown into the generator at the yield, the
\* finally clause runs and the exception leaves get_db
get_db_throw(q) ==
    /\ q \in DOMAIN get_db_state
    /\ get_db_state[q].gen = "yielded"
    /\ get_db_state[q].handler = "raised"
    /\ get_db_state' = [get_db_state EXCEPT ![q] = get_db_leave(@, "throw")]
    /\ UNCHANGED dbFrame

NextDb ==
    \/ \E q \in cap.sessions : get_db_next(q)
    \/ \E q \in cap.sessions : handler_uses_db(q)
    \/ \E q \in cap.sessions : handler_returns(q)
    \/ \E q \in cap.sessions : handler_raises(q)
    \/ \E q \in cap.sessions : get_db_resume(q)
    \/ \E q \in cap.sessions : get_db_throw(q)

SpecDb == Init /\ [][NextDb]_vars

\* ------------------------------------------------------------------ claims
\* the latest broadcast of task s has run to its end without a failed send
BroadcastOver(s) ==
    /\ bstart[s] # <<>>
    /\ pc[s] \notin {"broadcasting", "sent"}
    /\ bfailed[s] = NoConn

\* how many times connection c occurs in a list
Occurrences(list, c) ==
    LET Is(x) == x = c
    IN  Len(SelectSeq(list, Is))

\* C1: after any sequence of connect and disconnect calls a room id has a registry entry
\* if and only if a connection is registered under it (no id maps to an empty list), and
\* the disconnect that removes an entry's last connection removes the entry.
C1_EntryIffConnection ==
    /\ \A r \in RoomIds :
          r \in DOMAIN active_connections <=> Members(active_connections, r) # {}
    /\ \A r \in DOMAIN active_connections : active_connections[r] # <<>>
    /\ (/\ mgr_last.op = "disconnect"
        /\ mgr_last.room \in DOMAIN mgr_last.before
        /\ mgr_last.before[mgr_last.room] = <<mgr_last.ws>>)
       => mgr_last.room \notin DOMAIN active_connections

C1_Witness ==
    /\ mgr_last.op = "disconnect"
    /\ mgr_last.room \in DOMAIN mgr_last.before
    /\ mgr_last.before[mgr_last.room] = <<mgr_last.ws>>
    /\ mgr_last.room \notin DOMAIN active_connections
    /\ active_connections # <<>>

\* C2: a session opened for a room id the store does not hold goes from its start to its
\* end through the close only: it ends with close code 1008, it is never in the registry,
\* and none of its steps changes the registry.
C2_UnknownRoomRejected ==
    /\ [](\A s \in Sessions :
            (pc[s] # "idle" /\ roomObj[s] = NoRoom) =>
                /\ pc[s] \in {"closing", "done"}
                /\ ~Registered(active_connections, s)
                /\ (pc[s] = "done" => closeCode[s] = WS_1008_POLICY_VIOLATION))
    /\ [][\A s \in Sessions :
            (pc'[s] # pc[s] /\ roomObj'[s] = NoRoom) =>
                active_connections' = active_connections]_vars

C2_Witness ==
    \E s \in Sessions :
        /\ pc[s] = "done"
        /\ roomObj[s] = NoRoom
        /\ closeCode[s] = WS_1008_POLICY_VIOLATION
        /\ active_connections # <<>>

\* C3: a broadcast by sender S that runs to its end with every send succeeding, on a room
\* whose entry holds the same N connections (S among them) from its start to its end,
\* has sent the frame to the N-1 other connections, once each, and not to S.
C3_BroadcastReachesOthersOnce ==
    \A s \in Sessions :
        (BroadcastOver(s) /\ ~bchanged[s]) =>
            /\ s \in Range(bstart[s])
            /\ \A c \in Sessions :
                  Occurrences(bsent[s], c) =
                      (IF c \in Range(bstart[s]) /\ c # s THEN 1 ELSE 0)

C3_Witness ==
    \E s \in Sessions :
        /\ BroadcastOver(s)
        /\ ~bchanged[s]
        /\ Len(bstart[s]) = 3
        /\ Len(bsent[s]) = 2

\* C4 (as claimed): no task that has ended still has its connection in the registry.
C4_EndedTaskHasLeft ==
    \A s \in Sessions : Ended(s) => ~Registered(active_connections, s)

\* C5 (as claimed): when a send of a broadcast has failed, every other connection that was
\* registered under the room at the broadcast's start, still is, and has an open channel
\* has been sent the frame.
C5_FailedSendDoesNotAbort ==
    \A s \in Sessions :
        bfailed[s] # NoConn =>
            \A t \in (Range(bstart[s]) \cap Members(active_connections, room[s]))
                        \ {s, bfailed[s]} :
                chan[t] = "open" => t \in Range(bsent[s])

\* C6 (as claimed): the step in which a send of a broadcast fails leaves the sender's task
\* running (in the broadcast, or awaiting its next frame) and registered under its room.
C6_FailedSendSparesSender ==
    [][\A s \in Sessions :
          (pc[s] = "broadcasting" /\ bfailed'[s] # NoConn) =>
              /\ pc'[s] \in {"broadcasting", "sent", "receiving"}
              /\ s \in Members(active_connections', room[s])]_vars

\* C7 (as claimed): a broadcast that has run to its end has sent the frame exactly once to
\* every connection other than the sender that was registered under the room when it
\* started and still is, whatever joined or left in between.
C7_MembershipChangeTolerated ==
    \A s \in Sessions :
        BroadcastOver(s) =>
            \A t \in (Range(bstart[s]) \cap Members(active_connections, room[s])) \ {s} :
                Occurrences(bsent[s], t) = 1

\* C8: a frame is committed to the store before it is sent to any peer: the frame of a
\* broadcast in progress, and every update frame a client has received, is the content
\* of a commit update_room_code has made for that room.
C8_PersistedBeforeSent ==
    /\ \A s \in Sessions :
          pc[s] \in {"broadcasting", "sent"} => <<room[s], data[s]>> \in persisted
    /\ \A t \in Sessions : \A i \in 1..Len(inbox[t]) :
          inbox[t][i].kind = "update" => <<room[t], inbox[t][i].msg>> \in persisted

C8_Witness ==
    \E t \in Sessions : \E i \in 1..Len(inbox[t]) :
        /\ inbox[t][i].kind = "update"
        /\ inbox[t][i].from # t

\* C9: every room id that has a registry entry is a room of the store.
C9_RegisteredRoomExists ==
    \A r \in DOMAIN active_connections : store[r] # NoRoom

C9_Witness ==
    /\ active_connections # <<>>
    /\ \E s \in Sessions : pc[s] = "done" /\ roomObj[s] = NoRoom /\ store[room[s]] = NoRoom

\* C10: disconnect for a room id that has no registry entry raises nothing and leaves the
\* registry as it was.
C10_DisconnectUnknownRoom ==
    (mgr_last.op = "disconnect" /\ mgr_last.room \notin DOMAIN mgr_last.before) =>
        /\ ~mgr_last.raised
        /\ active_connections = mgr_last.before

C10_Witness ==
    /\ mgr_last.op = "disconnect"
    /\ mgr_last.room \notin DOMAIN mgr_last.before
    /\ mgr_last.before # <<>>

\* C11 (as claimed): disconnect of a websocket from a room id whose entry does not hold
\* it raises nothing and leaves the registry as it was.
C11_DisconnectAbsentConnection ==
    (/\ mgr_last.op = "disconnect"
     /\ mgr_last.room \in DOMAIN mgr_last.before
     /\ mgr_last.ws \notin Range(mgr_last.before[mgr_last.room])) =>
        /\ ~mgr_last.raised
        /\ active_connections = mgr_last.before

\* positions of the initial frames among the frames written to connection s
InitialFrames(s) == {i \in 1..Len(inbox[s]) : inbox[s][i].kind = "initial"}

\* C12 (as claimed): a connection whose connect has returned while the room's stored
\* content was not empty has been written that content as its first frame and no other
\* initial frame; one whose connect returned while the stored content was empty has been
\* written no initial frame.
C12_InitialFrameIsStoredContent ==
    \A s \in Sessions :
        member[s] # "no" =>
            IF joinContent[s] # EmptyText
            THEN /\ InitialFrames(s) = {1}
                 /\ inbox[s][1].msg = joinContent[s]
            ELSE InitialFrames(s) = {}

\* the part of C12 that does hold: the content the lookup loaded is written as the first
\* frame, once, when it is not empty, and no initial frame is written when it is empty
InitialFrameIsLoadedContent ==
    \A s \in Sessions :
        member[s] # "no" =>
            IF roomObj[s] # EmptyText
            THEN /\ InitialFrames(s) = {1}
                 /\ inbox[s][1].msg = roomObj[s]
            ELSE InitialFrames(s) = {}

\* C13: whatever the interleaving of the tasks, each room's entry holds exactly the
\* connections whose connect has returned and whose disconnect has not been called, once
\* each: no registration is lost or overwritten.
C13_EntryIsJoinedNotLeft ==
    \A r \in RoomIds :
        /\ Members(active_connections, r) =
              {s \in Sessions : member[s] = "joined" /\ room[s] = r}
        /\ \A s \in Members(active_connections, r) :
              Occurrences(active_connections[r], s) = 1

\* two connections registered under a room that a third has left, while the other room
\* has had its last connection leave
C13_Witness ==
    \E s, t, u \in Sessions :
        /\ s # t
        /\ room[s] = room[t]
        /\ member[s] = "joined"
        /\ member[t] = "joined"
        /\ member[u] = "left"
        /\ room[u] \notin DOMAIN active_connections

\* the content of the put applied last to room r
LastPut(r) == crud_puts[r][Len(crud_puts[r])][2]

\* C14: puts for one room id by different sessions are applied one after another and the
\* room's content is the whole content of the put applied last, never a mixture.
C14_LastAppliedPutWins ==
    \A r \in RoomIds : crud_puts[r] # <<>> => store[r] = LastPut(r)

C14_Witness ==
    \E r \in RoomIds :
        /\ Len(crud_puts[r]) >= 2
        /\ crud_puts[r][1][1] # crud_puts[r][2][1]
        /\ crud_puts[r][1][2] # crud_puts[r][2][2]

\* C18: get_room_code on a room returns the content of the latest update_room_code
\* applied to it.
C18_GetReturnsLastPut ==
    (crud_last.op = "get_room_code" /\ crud_puts[crud_last.room] # <<>>) =>
        crud_last.result = LastPut(crud_last.room)

C18_Witness ==
    /\ crud_last.op = "get_room_code"
    /\ Len(crud_puts[crud_last.room]) >= 2
    /\ crud_puts[crud_last.room][1][2] # LastPut(crud_last.room)
    /\ crud_last.result = LastPut(crud_last.room)

C20_GetUnknownReturnsNone ==
    crud_last.op \in {"get_room_code", "get_room_by_id"} =>
        /\ ~crud_last.raised
        /\ crud_last.result = (IF store[crud_last.room] = NoRoom THEN NoRoom
                               ELSE store[crud_last.room])

C20_Witness ==
    /\ crud_last.op = "get_room_code"
    /\ store[crud_last.room] = NoRoom
    /\ crud_last.result = NoRoom
    /\ \E r \in RoomIds : store[r] \in Msgs

\* connection t is still owed the frame of task s's broadcast: it was registered under
\* the room when the broadcast started, still is, its channel is open, and the broadcast
\* has not sent to it
Owed(s, t) ==
    /\ t \in Range(bstart[s]) \cap Members(active_connections, room[s])
    /\ t \notin {s, conn[s]}
    /\ chan[t] = "open"
    /\ t \notin Range(bsent[s])

\* C15 (as claimed): while a broadcast is suspended in a send to a stalled client, every
\* other connection it owes the frame is eventually sent it (or leaves, or the stall
\* ends).
C15_StalledRecipientSparesOthers ==
    \A s, t \in CoreSessions :
        (Stalled(s) /\ Owed(s, t)) ~> (~Stalled(s) \/ ~Owed(s, t))

\* entry i of a task's log follows what the handler's loop allows: a frame is received
\* only after the join or after the broadcast of the previous frame has ended, it is put
\* right after it is received, and the sends and the end of its broadcast follow its put
InOrder(log, i) ==
    CASE log[i].kind = "join" -> i = 1
      [] log[i].kind = "recv" -> i > 1 /\ log[i - 1].kind \in {"join", "end"}
      [] log[i].kind = "put"  -> /\ i > 1
                                 /\ log[i - 1].kind = "recv"
                                 /\ log[i - 1].msg = log[i].msg
      [] log[i].kind \in {"send", "end"} ->
                                 /\ i > 1
                                 /\ log[i - 1].kind \in {"put", "send"}
                                 /\ log[i - 1].msg = log[i].msg
      [] log[i].kind = "leave" -> i > 1

IsSendTo(e, t) == e.kind = "send" /\ e.to = t

\* the frames task s has sent to connection t, in order
SendsTo(s, t) ==
    LET Pick(e) == IsSendTo(e, t)
        sel == SelectSeq(slog[s], Pick)
    IN  [i \in 1..Len(sel) |-> sel[i].msg]

\* the update frames written to connection t that came from task s, in order
FramesFrom(s, t) ==
    LET Pick(f) == f.kind = "update" /\ f.from = s
        sel == SelectSeq(inbox[t], Pick)
    IN  [i \in 1..Len(sel) |-> sel[i].msg]

\* the frames task s has received, in order
Received(s) ==
    LET Pick(e) == e.kind = "recv"
        sel == SelectSeq(slog[s], Pick)
    IN  [i \in 1..Len(sel) |-> sel[i].msg]

\* C16: a task handles its frames one at a time in the order it received them: the next
\* frame is received only after the put and the whole broadcast of the previous one, and
\* each peer is written the task's frames in that order.
C16_OneFrameAtATime ==
    \A s \in Sessions :
        /\ \A i \in 1..Len(slog[s]) : InOrder(slog[s], i)
        /\ \A t \in Sessions : FramesFrom(s, t) = SendsTo(s, t)

C16_Witness ==
    \E s, t \in Sessions :
        /\ Len(Received(s)) = 2
        /\ Received(s)[1] # Received(s)[2]
        /\ FramesFrom(s, t) = Received(s)

\* task u has a step to take that waits for nothing from its client
Ready(u) ==
    \/ pc[u] \in {"accepting", "broadcasting"}
    \/ pc[u] = "sending_initial" /\ chan[u] # "stalled"
    \/ pc[u] = "receiving" /\ chan[u] = "closed"
    \/ pc[u] = "sent" /\ chan[conn[u]] # "stalled"

C21_CreateReturnsFreshId ==
    crud_last.op = "create_room" =>
        /\ ~crud_last.raised
        /\ crud_last.result \in RoomIds
        /\ crud_last.before[crud_last.result] = NoRoom
        /\ store = [crud_last.before EXCEPT ![crud_last.result] = EmptyText]

\* the part of C21 that does hold: a create_room call that returns has returned an
\* identifier no room had, under which there is now a room with empty content, and no
\* create_room call, returning or raising, changes another room or a room's content
CreateRoomThatReturns ==
    crud_last.op = "create_room" =>
        /\ ~crud_last.raised =>
              /\ crud_last.before[crud_last.result] = NoRoom
              /\ store = [crud_last.before EXCEPT ![crud_last.result] = EmptyText]
        /\ crud_last.raised => store = crud_last.before

\* the state of the session state machine that a position of the handler belongs to:
\* Pending until connect has returned, Active from then on, Closed when the handler has
\* returned or an exception has left it ("New": the client has not opened the channel)
SessionState(p) ==
    CASE p = "idle" -> "New"
      [] p \in {"closing", "accepting"} -> "Pending"
      [] p \in {"sending_initial", "receiving", "broadcasting", "sent"} -> "Active"
      [] p \in {"done", "crashed"} -> "Closed"

\* C22: a session starts Pending and moves only from Pending to Active, from Pending to
\* Closed and from Active to Closed; a Closed session stays Closed, and a session whose
\* lookup found no room is never Active.
C22_SessionStateMachine ==
    /\ [][\A s \in Sessions :
            SessionState(pc'[s]) # SessionState(pc[s]) =>
                <<SessionState(pc[s]), SessionState(pc'[s])>> \in
                    {<<"New", "Pending">>, <<"Pending", "Active">>,
                     <<"Pending", "Closed">>, <<"Active", "Closed">>}]_vars
    /\ [](\A s \in Sessions :
            (pc[s] # "idle" /\ roomObj[s] = NoRoom) => SessionState(pc[s]) # "Active")

\* one session Closed after it was Active, one Closed by the rejection of an unknown
\* room, one Closed by a failed accept
C22_Witness ==
    \E s, t, u \in Sessions :
        /\ Ended(s) /\ member[s] # "no"
        /\ pc[t] = "done" /\ roomObj[t] = NoRoom
        /\ pc[u] = "crashed" /\ member[u] = "no" /\ roomObj[u] # NoRoom

\* what task s logs in a step: the kinds of the entries the step appends to its log
Logged(s) == {slog'[s][i].kind : i \in (Len(slog[s]) + 1)..Len(slog'[s])}

\* C23 (as claimed): a task whose channel is closed receives no frame, puts nothing and
\* sends no frame to a peer.
C23_ClosedSessionDoesNothing ==
    [][\A s \in Sessions :
          chan[s] = "closed" => Logged(s) \cap {"recv", "put", "send"} = {}]_vars

\* the part of C23 that does hold: a task whose channel is closed receives no frame and
\* puts nothing, so it starts no broadcast
ClosedSessionReceivesNothing ==
    [][\A s \in Sessions :
          chan[s] = "closed" => Logged(s) \cap {"recv", "put"} = {}]_vars

\* the room ids under which connection c is registered
RoomsOf(ac, c) == {r \in DOMAIN ac : c \in Range(ac[r])}

\* C24: every connection is registered under at most one room id, and at most once in
\* that room's entry.
C24_OneRoomOnce ==
    \A s \in Sessions :
        /\ Cardinality(RoomsOf(active_connections, s)) <= 1
        /\ \A r \in DOMAIN active_connections : Occurrences(active_connections[r], s) <= 1

\* both rooms have an entry, one of them with two connections
C24_Witness ==
    \E s, t, u \in Sessions :
        /\ s # t
        /\ RoomsOf(active_connections, s) = RoomsOf(active_connections, t)
        /\ Cardinality(RoomsOf(active_connections, s)) = 1
        /\ Cardinality(RoomsOf(active_connections, u)) = 1
        /\ RoomsOf(active_connections, u) # RoomsOf(active_connections, s)

\* the list registered under room id r, empty when r has no entry
EntryOf(ac, r) == IF r \in DOMAIN ac THEN ac[r] ELSE <<>>

\* list is `whole` with exactly its k-th item taken out
IsWithout(list, whole, k) ==
    /\ Len(list) = Len(whole) - 1
    /\ \A i \in 1..Len(list) : list[i] = (IF i < k THEN whole[i] ELSE whole[i + 1])

\* C25: a room's entry lists its connections in the order their joins completed: the
\* step in which a connection joins appends it at the end of its room's entry, the step
\* in which it leaves takes it out and keeps the others in their order, and no other step
\* changes an entry.
C25_EntryKeepsJoinOrder ==
    [][/\ \A s \in Sessions :
             (member[s] = "no" /\ member'[s] = "joined") =>
                 EntryOf(active_connections', room[s])
                     = Append(EntryOf(active_connections, room[s]), s)
       /\ \A s \in Sessions :
             (member[s] = "joined" /\ member'[s] = "left") =>
                 \E k \in 1..Len(EntryOf(active_connections, room[s])) :
                     /\ active_connections[room[s]][k] = s
                     /\ IsWithout(EntryOf(active_connections', room[s]),
                                  active_connections[room[s]], k)
       /\ \A s \in Sessions :
             member'[s] # member[s] =>
                 \A r \in RoomIds \ {room[s]} :
                     EntryOf(active_connections', r) = EntryOf(active_connections, r)
       /\ member' = member => active_connections' = active_connections]_vars

\* an entry of three connections that its first or second connection has left
C25_Witness ==
    \E s \in Sessions :
        /\ Len(bstart[s]) = 3
        /\ active_connections # <<>>
        /\ room[s] \in DOMAIN active_connections
        /\ active_connections[room[s]] \in {<<bstart[s][1], bstart[s][3]>>,
                                            <<bstart[s][2], bstart[s][3]>>}

\* a broadcast of room r has started and not ended
BroadcastRunning(r) == \E s \in Sessions : room[s] = r /\ pc[s] \in {"broadcasting", "sent"}

\* connection t has been sent content m as an update frame
ShownTo(t, m) ==
    \E i \in 1..Len(inbox[t]) : inbox[t][i].kind = "update" /\ inbox[t][i].msg = m

\* C26 (as claimed): a connection is not left with a snapshot older than what the room's
\* peers have been shown: if the content its handler uses as the initial snapshot is not
\* the content that was stored when its connect returned, and that stored content has
\* been sent to a peer, then the connection is sent an update frame too (one has been
\* written to it, or a broadcast of the room is still running).
C26_SnapshotNotOlderThanShown ==
    \A j \in Sessions :
        (/\ member[j] # "no"
         /\ roomObj[j] # joinContent[j]
         /\ \E t \in Sessions \ {j} : room[t] = room[j] /\ ShownTo(t, joinContent[j])) =>
            \/ \E i \in 1..Len(inbox[j]) : inbox[j][i].kind = "update"
            \/ BroadcastRunning(room[j])

\* the update frames written to connection t, in order
Updates(t) ==
    LET Pick(f) == f.kind = "update"
        sel == SelectSeq(inbox[t], Pick)
    IN  [i \in 1..Len(sel) |-> sel[i].msg]

\* how many puts the tasks of room r have committed
NumPuts(r) ==
    Cardinality(UNION {{<<s, i>> : i \in {k \in 1..Len(slog[s]) : slog[s][k].kind = "put"}} :
                          s \in {x \in Sessions : room[x] = r}})

\* C27 (as claimed): a peer is written the updates of a room in the order in which they
\* were persisted: when no broadcast of the room is running, a connection that has sent
\* nothing itself and has been written every update persisted for its room has the
\* room's stored content as its last update frame.
C27_LastFrameIsStoredContent ==
    \A t \in Sessions :
        (/\ member[t] = "joined"
         /\ ~BroadcastRunning(room[t])
         /\ Received(t) = <<>>
         /\ Updates(t) # <<>>
         /\ Len(Updates(t)) = NumPuts(room[t])) =>
            Updates(t)[Len(Updates(t))] = store[room[t]]

\* C28: every update frame written to a connection of room R is, unaltered, a frame the
\* server received before from another connection that had joined the same room R: no
\* frame reaches another room, none returns to its sender.
C28_UpdateIsPeerFrameVerbatim ==
    \A t \in Sessions : \A i \in 1..Len(inbox[t]) :
        inbox[t][i].kind = "update" =>
            LET f == inbox[t][i]
            IN  /\ f.from # t
                /\ member[t] # "no"
                /\ member[f.from] # "no"
                /\ room[f.from] = room[t]
                /\ \E k \in 1..Len(slog[f.from]) :
                      slog[f.from][k].kind = "recv" /\ slog[f.from][k].msg = f.msg

\* two different frames of one sender have been broadcast to its peer while a connection
\* of the other room was joined: the peer has been written the two frames, the sender
\* and the other room's connection nothing
C28_Witness ==
    \E s, t, u \in Sessions :
        /\ BroadcastOver(s)
        /\ inbox[s] = <<>>
        /\ Len(Updates(t)) = 2
        /\ Updates(t)[1] # Updates(t)[2]
        /\ Updates(t) = Received(s)
        /\ room[t] = room[s]
        /\ room[u] # room[s]
        /\ member[u] = "joined"
        /\ inbox[u] = <<>>

\* C29: disconnect takes at most the given websocket, once, out of the given room's entry
\* and leaves every other connection of the room registered; broadcast changes nothing in
\* the registry; and connect, disconnect and broadcast for one room id leave the entries
\* of all other room ids as they were.
C29_RegistryFrame ==
    LET r0 == mgr_last.room
        old == mgr_last.before
    IN  /\ mgr_last.op = "disconnect" =>
              /\ \A c \in Sessions \ {mgr_last.ws} :
                    Occurrences(EntryOf(active_connections, r0), c)
                        = Occurrences(EntryOf(old, r0), c)
              /\ Occurrences(EntryOf(active_connections, r0), mgr_last.ws)
                    >= Occurrences(EntryOf(old, r0), mgr_last.ws) - 1
        /\ mgr_last.op = "broadcast" => active_connections = old
        /\ mgr_last.op \in {"connect", "disconnect", "broadcast"} =>
              \A r \in RoomIds \ {r0} :
                  /\ r \in DOMAIN active_connections <=> r \in DOMAIN old
                  /\ EntryOf(active_connections, r) = EntryOf(old, r)

\* a disconnect has taken the middle one of three connections out of a room's entry
\* while the other room had an entry
C29_Witness ==
    /\ mgr_last.op = "disconnect"
    /\ DOMAIN mgr_last.before = RoomIds
    /\ Len(mgr_last.before[mgr_last.room]) = 3
    /\ mgr_last.before[mgr_last.room][2] = mgr_last.ws
    /\ mgr_last.before[mgr_last.room][1] # mgr_last.ws
    /\ Len(EntryOf(active_connections, mgr_last.room)) = 2

\* C30: a broadcast to a room id that has no entry, or whose entry holds only the sender,
\* sends nothing, raises nothing and leaves the registry as it was.
C30_BroadcastToNobody ==
    (/\ mgr_last.op = "broadcast"
     /\ Members(mgr_last.before, mgr_last.room) \subseteq {mgr_last.ws}) =>
        /\ mgr_last.sent = <<>>
        /\ ~mgr_last.raised
        /\ active_connections = mgr_last.before

\* a broadcast to a room id without an entry while the other room has connections, the
\* sender among them
C30_Witness ==
    /\ mgr_last.op = "broadcast"
    /\ mgr_last.room \notin DOMAIN mgr_last.before
    /\ \E r \in DOMAIN mgr_last.before :
          /\ mgr_last.ws \in Range(mgr_last.before[r])
          /\ Len(mgr_last.before[r]) >= 2
    /\ mgr_last.sent = <<>>

\* a broadcast to a room whose entry holds the sender alone
BroadcastToSenderAlone ==
    /\ mgr_last.op = "broadcast"
    /\ mgr_last.room \in DOMAIN mgr_last.before
    /\ Range(mgr_last.before[mgr_last.room]) = {mgr_last.ws}
    /\ mgr_last.sent = <<>>

\* list `part` can be had from list `whole` by leaving items out, the others in their order
RECURSIVE IsSubsequence(_, _)
IsSubsequence(part, whole) ==
    IF part = <<>> THEN TRUE
    ELSE IF whole = <<>> THEN FALSE
    ELSE IF part[1] = whole[1] THEN IsSubsequence(Tail(part), Tail(whole))
    ELSE IsSubsequence(part, Tail(whole))

\* C31: the updates of one sender reach each peer in the order the sender's task received
\* them from its client: the frames a peer has been written from a sender are the frames
\* that sender received, in that order, with none repeated (frames of a time the peer was
\* not registered are left out).
C31_SenderOrderKept ==
    \A s, t \in Sessions : IsSubsequence(FramesFrom(s, t), Received(s))

\* a sender has received two different frames; a peer registered throughout has been
\* written both, in that order, and a peer that joined in between the second only
C31_Witness ==
    \E s, t, u \in Sessions :
        /\ Len(Received(s)) = 2
        /\ Received(s)[1] # Received(s)[2]
        /\ FramesFrom(s, t) = Received(s)
        /\ member[t] = "joined"
        /\ member[u] = "joined"
        /\ room[u] = room[s]
        /\ FramesFrom(s, u) = <<Received(s)[2]>>

\* task s is in the broadcast of a frame it received while connection t was registered
\* under its room
Undelivered(s, t) ==
    /\ pc[s] \in {"broadcasting", "sent"}
    /\ t \in Range(bstart[s]) \ {s}
    /\ t \notin Range(bsent[s])

\* C32 (as claimed): with every ready task resumed and no send failing or stalling, a
\* frame the server receives from a session of room R is eventually written to every
\* other connection that was registered under R when it was received and stays
\* registered (the frame is written, or the connection leaves the registry, or its
\* channel is closed, or a send of the broadcast fails).
C32_EveryPeerEventuallySent ==
    \A s, t \in CoreSessions :
        Undelivered(s, t) ~>
            \/ t \in Range(bsent[s])
            \/ t \notin Members(active_connections, room[s])
            \/ chan[t] = "closed"
            \/ bfailed[s] # NoConn

\* the part of C32 that does hold: the frame is eventually written to every such
\* connection unless the room's entry changes while the broadcast runs
PeerEventuallySentUnlessEntryChanges ==
    \A s, t \in CoreSessions :
        Undelivered(s, t) ~>
            \/ t \in Range(bsent[s])
            \/ bchanged[s]
            \/ chan[t] = "closed"
            \/ bfailed[s] # NoConn

\* the accept of task s is pending, or it has failed (the exception left connect before
\* the websocket was appended)
AcceptPendingOrFailed(s) ==
    \/ pc[s] = "accepting"
    \/ pc[s] = "crashed" /\ member[s] = "no"

\* C33: connect awaits the accept of a channel once and registers the websocket only in
\* the step in which that accept completes: a task enters the accept only from its start,
\* a websocket enters the registry only in a step of its own task that leaves the accept
\* with the channel open, and while the accept is pending or after it has failed the
\* websocket is in no entry, no broadcast has it as its target and it has been written
\* nothing.
C33_RegisteredAfterAccept ==
    /\ [](\A s \in Sessions :
            AcceptPendingOrFailed(s) =>
                /\ ~Registered(active_connections, s)
                /\ inbox[s] = <<>>
                /\ \A x \in Sessions : conn[x] # s)
    /\ [][\A s \in Sessions :
            /\ (pc'[s] = "accepting" /\ pc[s] # "accepting") => pc[s] = "idle"
            /\ (~Registered(active_connections, s) /\ Registered(active_connections', s)) =>
                  /\ pc[s] = "accepting"
                  /\ pc'[s] # "accepting"
                  /\ chan[s] = "open"
                  /\ Occurrences(active_connections'[room[s]], s) = 1]_vars

\* a broadcast is suspended in a send to a peer while, in the same room, the accept of a
\* third connection is pending on a channel its client has already closed
C33_Witness ==
    \E s, x \in Sessions :
        /\ pc[s] = "accepting"
        /\ chan[s] = "closed"
        /\ pc[x] = "sent"
        /\ room[x] = room[s]
        /\ conn[x] \notin {s, x}

\* the handler of request q has ended, by a return or by an exception
HandlerEnded(q) == get_db_state[q].handler \in {"returned", "raised"}

\* C34: the session get_db opens for a request is closed exactly once when the handler
\* ends, by a return or by an exception, and not while the handler runs: a running
\* handler has an open session that has not been closed and never calls a closed one, the
\* close is the generator's next step once the handler has ended, and a generator that
\* has finished has closed its session once.
C34_SessionClosedOnceAtEnd ==
    \A q \in DOMAIN get_db_state :
        LET g == get_db_state[q]
        IN  /\ g.closes <= 1
            /\ g.closes = 1 <=> g.db = "closed"
            /\ g.handler = "running" => (g.db = "open" /\ g.closes = 0)
            /\ ~g.usedClosed
            /\ g.db = "closed" => HandlerEnded(q)
            /\ (HandlerEnded(q) /\ g.gen = "yielded") =>
                  /\ g.db = "open"
                  /\ ENABLED (get_db_resume(q) \/ get_db_throw(q))
            /\ g.gen = "finished" =>
                  /\ HandlerEnded(q)
                  /\ g.closes = 1
                  /\ g.propagated <=> g.handler = "raised"

\* one request whose handler returned and one whose handler raised, both after calls on
\* the session and both with the session closed, while a third handler is running
C34_Witness ==
    \E q1, q2, q3 \in DOMAIN get_db_state :
        /\ get_db_state[q1].gen = "finished"
        /\ get_db_state[q1].handler = "returned"
        /\ get_db_state[q1].uses > 0
        /\ get_db_state[q1].closes = 1
        /\ get_db_state[q2].gen = "finished"
        /\ get_db_state[q2].handler = "raised"
        /\ get_db_state[q2].uses > 0
        /\ get_db_state[q2].closes = 1
        /\ get_db_state[q3].handler = "running"
        /\ get_db_state[q3].db = "open"

====
